---------------------------- MODULE Spec2Model ----------------------------
(***************************************************************************)
(* Model of Housing/component/data_transformation.py:                      *)
(*   - FeatureGenerator (__init__, fit, transform)                         *)
(*   - DataTransformation (get_data_transformer_object,                    *)
(*     initiate_data_tranformation)                                        *)
(*                                                                         *)
(* Floating point values are modelled as extended rationals: a record      *)
(* [num, den] in lowest terms with den >= 0; den = 0 encodes the IEEE      *)
(* special values +inf (1/0), -inf (-1/0) and NaN (0/0).  Signed zeros and *)
(* rounding are not modelled.                                              *)
(***************************************************************************)
EXTENDS Integers, Sequences, FiniteSets, TLC

VARIABLES
    args,       \* the keyword arguments of the last FeatureGenerator(...) call
    fg,         \* the FeatureGenerator instance under construction/use
    X,          \* the matrix last handed to FeatureGenerator.transform
    result,     \* what the last FeatureGenerator call returned
    raised,     \* the exception chain the last call raised (<<>>: none)
    op,         \* the last operation performed
    config,     \* the file paths DataTransformation is configured with
    file_paths, \* file_path_train and file_path_test once derived
    pc,         \* the statement initiate_data_tranformation is about to run
    schema_file,        \* the content of the schema file
    preprocessing_obj,  \* the ColumnTransformer, with what it has learned
    train_df,           \* the training table as loaded
    test_df,            \* the test table as loaded
    target_colname,     \* schema[TARGET_COLUMN_KEY] once read
    arrays,             \* the transformed arrays, as far as computed
    steps,              \* the calls made so far, in order
    saved,              \* the files written so far, in order
    artifact,           \* the DataTransformationArtifact returned
    error               \* the exception initiate_data_tranformation raised

fgVars == <<args, fg, X, result, raised, op>>

pathVars == <<config, file_paths>>

pipeVars ==
    <<pc, schema_file, preprocessing_obj, train_df, test_df, target_colname,
      arrays, steps, saved, artifact, error>>

vars == <<fgVars, pathVars, pipeVars>>

---------------------------------------------------------------------------
(* Bounds of the model *)

\* a matrix handed to FeatureGenerator.transform has 1 .. MaxRows rows
MaxRows == 1

\* a source file path is made of 1 .. MaxSegments segments of PathSegments
MaxSegments == 3

---------------------------------------------------------------------------
(* Extended rational arithmetic (numpy float64 array division) *)

Abs(n) == IF n < 0 THEN -n ELSE n

Sign(n) == IF n < 0 THEN -1 ELSE IF n > 0 THEN 1 ELSE 0

RECURSIVE GCD(_, _)
GCD(a, b) == IF b = 0 THEN a ELSE GCD(b, a % b)

\* the float with value n/d; d = 0 gives inf, -inf or nan by the sign of n
Norm(n, d) ==
    IF d = 0 THEN [num |-> Sign(n), den |-> 0]
    ELSE LET g == GCD(Abs(n), Abs(d))
             s == Sign(d)
         IN  [num |-> (s * n) \div g, den |-> (s * d) \div g]

Flt(n) == [num |-> n, den |-> 1]

NaN == [num |-> 0, den |-> 0]

PosInf == [num |-> 1, den |-> 0]

IsFinite(a) == a.den # 0

\* numpy true division a / b: never raises, x/0 is +-inf, 0/0 is nan
Div(a, b) == Norm(a.num * b.den, a.den * b.num)

---------------------------------------------------------------------------
(* Exceptions: a chain of exception types, outermost first.                *)
(* `raise HousingException(e, sys) from e` puts HousingException in front. *)

NoError == <<>>

HousingException(e) == <<"HousingException">> \o e

---------------------------------------------------------------------------
(* FeatureGenerator *)

COLUMN_TOTAL_ROOMS == "total_rooms"
COLUMN_POPULATION == "population"
COLUMN_HOUSEHOLDS == "households"
COLUMN_TOTAL_BEDROOM == "total_bedrooms"

RequiredNames ==
    {COLUMN_TOTAL_ROOMS, COLUMN_POPULATION, COLUMN_HOUSEHOLDS, COLUMN_TOTAL_BEDROOM}

\* defaults of FeatureGenerator.__init__
DefaultTotalRoomsIx == 3
DefaultPopulationIx == 5
DefaultHouseholdsIx == 6
DefaultTotalBedroomsIx == 4

\* columns=None
NoColumns == [given |-> FALSE, names |-> <<>>]

GivenColumns(names) == [given |-> TRUE, names |-> names]

\* the arguments of FeatureGenerator() when none is passed
DefaultArgs ==
    [add_bedrooms_per_room |-> TRUE,
     total_rooms_ix |-> DefaultTotalRoomsIx, population_ix |-> DefaultPopulationIx,
     households_ix |-> DefaultHouseholdsIx, total_bedrooms_ix |-> DefaultTotalBedroomsIx,
     columns |-> NoColumns]

NoInstance ==
    [ok |-> FALSE, add_bedrooms_per_room |-> FALSE,
     total_rooms_ix |-> 0, population_ix |-> 0,
     households_ix |-> 0, total_bedrooms_ix |-> 0, columns |-> NoColumns]

Contains(s, x) == \E i \in 1..Len(s) : s[i] = x

ListIndexOneBased(s, x) == CHOOSE i \in 1..Len(s) : s[i] = x

\* list.index(x): 0-based position of the first occurrence
ListIndex(s, x) ==
    (CHOOSE i \in 1..Len(s) : s[i] = x /\ \A j \in 1..(i-1) : s[j] # x) - 1

\* FeatureGenerator.__init__: a are the keyword arguments after defaults
FeatureGenerator_init(a) ==
    IF a.columns.given
    THEN IF \A n \in RequiredNames : Contains(a.columns.names, n)
         THEN [raised |-> NoError,
               self |-> [ok |-> TRUE,
                         add_bedrooms_per_room |-> a.add_bedrooms_per_room,
                         total_rooms_ix |-> ListIndex(a.columns.names, COLUMN_TOTAL_ROOMS),
                         population_ix |-> ListIndex(a.columns.names, COLUMN_POPULATION),
                         households_ix |-> ListIndex(a.columns.names, COLUMN_HOUSEHOLDS),
                         total_bedrooms_ix |-> ListIndex(a.columns.names, COLUMN_TOTAL_BEDROOM),
                         columns |-> a.columns]]
         ELSE [raised |-> HousingException(<<"ValueError">>), self |-> NoInstance]
    ELSE [raised |-> NoError,
          self |-> [ok |-> TRUE,
                    add_bedrooms_per_room |-> a.add_bedrooms_per_room,
                    total_rooms_ix |-> a.total_rooms_ix,
                    population_ix |-> a.population_ix,
                    households_ix |-> a.households_ix,
                    total_bedrooms_ix |-> a.total_bedrooms_ix,
                    columns |-> a.columns]]

\* a matrix: its column count and its rows, each a sequence of ncols floats
NoMatrix == [ncols |-> 0, rows |-> <<>>]

ValidIndexNonNegative(i, n) == 0 <= i /\ i < n

\* numpy accepts index i on an axis of length n iff -n <= i < n
ValidIndex(i, n) == -n <= i /\ i < n

\* X[:, i] read in one row: negative i counts from the end
Cell(row, i) == row[(IF i < 0 THEN Len(row) + i ELSE i) + 1]

\* the indices transform reads: total_bedrooms_ix only when the flag is set
IndicesRead(self) ==
    {self.total_rooms_ix, self.households_ix, self.population_ix}
        \cup (IF self.add_bedrooms_per_room THEN {self.total_bedrooms_ix} ELSE {})

GeneratedRowPrepended(self, row) ==
    <<Div(Cell(row, self.total_rooms_ix), Cell(row, self.households_ix)),
      Div(Cell(row, self.population_ix), Cell(row, self.households_ix))>>
    \o (IF self.add_bedrooms_per_room
        THEN <<Div(Cell(row, self.total_bedrooms_ix), Cell(row, self.total_rooms_ix))>>
        ELSE <<>>)
    \o row

GeneratedRowInverted(self, row) ==
    row \o <<Div(Cell(row, self.households_ix), Cell(row, self.total_rooms_ix)),
             Div(Cell(row, self.population_ix), Cell(row, self.households_ix))>>
        \o (IF self.add_bedrooms_per_room
            THEN <<Div(Cell(row, self.total_bedrooms_ix), Cell(row, self.total_rooms_ix))>>
            ELSE <<>>)

GeneratedRow(self, row) ==
    LET room_per_household == Div(Cell(row, self.total_rooms_ix), Cell(row, self.households_ix))
        population_per_household == Div(Cell(row, self.population_ix), Cell(row, self.households_ix))
        bedrooms_per_room == Div(Cell(row, self.total_bedrooms_ix), Cell(row, self.total_rooms_ix))
    IN  IF self.add_bedrooms_per_room
        THEN row \o <<room_per_household, population_per_household, bedrooms_per_room>>
        ELSE row \o <<room_per_household, population_per_household>>

\* FeatureGenerator.transform
transform(self, M) ==
    IF \E i \in IndicesRead(self) : ~ValidIndex(i, M.ncols)
    THEN [raised |-> HousingException(<<"IndexError">>), value |-> NoMatrix]
    ELSE [raised |-> NoError,
          value |-> [ncols |-> M.ncols + (IF self.add_bedrooms_per_room THEN 3 ELSE 2),
                     rows |-> [r \in 1..Len(M.rows) |-> GeneratedRow(self, M.rows[r])]]]

\* FeatureGenerator.fit: returns self
fit(self, M) == self

---------------------------------------------------------------------------
(* File names: strings are sequences of characters *)

RECURSIVE LastIndexOf(_, _)
\* the largest i with s[i] = c, 0 when there is none (str.rfind + 1)
LastIndexOf(s, c) ==
    IF s = <<>> THEN 0
    ELSE IF s[Len(s)] = c THEN Len(s)
    ELSE LastIndexOf(SubSeq(s, 1, Len(s) - 1), c)

\* os.path.basename
basename(p) == SubSeq(p, LastIndexOf(p, "/") + 1, Len(p))

RECURSIVE replace(_, _, _)
\* str.replace(old, new), old not empty: every occurrence, left to right
replace(s, old, new) ==
    IF Len(s) < Len(old) THEN s
    ELSE IF SubSeq(s, 1, Len(old)) = old
         THEN new \o replace(SubSeq(s, Len(old) + 1, Len(s)), old, new)
         ELSE <<s[1]>> \o replace(Tail(s), old, new)

\* os.path.join(a, b)
join(a, b) ==
    IF b # <<>> /\ b[1] = "/" THEN b
    ELSE IF a = <<>> \/ a[Len(a)] = "/" THEN a \o b
    ELSE a \o <<"/">> \o b

DotCsv == <<".", "c", "s", "v">>

DotNpz == <<".", "n", "p", "z">>

\* basename(path).replace('.csv', '.npz')
ArrayFileName(path) == replace(basename(path), DotCsv, DotNpz)

NoPaths == [file_path_train |-> <<>>, file_path_test |-> <<>>]

\* file_path_train and file_path_test of initiate_data_tranformation
FilePaths(c) ==
    [file_path_train |-> join(c.transformed_train_dir, ArrayFileName(c.train_file_path)),
     file_path_test |-> join(c.transformed_test_dir, ArrayFileName(c.test_file_path))]

---------------------------------------------------------------------------
(* The estimators the pipelines are built from (scikit-learn), as far as   *)
(* the shape of their output, what they learn and when they raise go.      *)

IsNaN(a) == a = NaN

IsInf(a) == a.den = 0 /\ a.num # 0

Add(a, b) == Norm(a.num * b.den + b.num * a.den, a.den * b.den)

Sub(a, b) == Norm(a.num * b.den - b.num * a.den, a.den * b.den)

Mul(a, b) == Norm(a.num * b.num, a.den * b.den)

\* a < b, both finite
Less(a, b) == a.num * b.den < b.num * a.den

\* column j of a matrix, as a sequence
ColumnOf(M, j) == [r \in 1..Len(M.rows) |-> M.rows[r][j]]

\* the entries of a column that are not missing
Observed(col) == SelectSeq(col, LAMBDA v : ~IsNaN(v))

CountIn(col, v) == Cardinality({i \in 1..Len(col) : col[i] = v})

\* the k-th smallest entry of a non-empty sequence of finite values
KthSmallest(col, k) ==
    LET below(v) == Cardinality({i \in 1..Len(col) : Less(col[i], v)})
    IN  col[CHOOSE i \in 1..Len(col) :
                below(col[i]) < k /\ k <= below(col[i]) + CountIn(col, col[i])]

\* numpy median of a non-empty sequence of finite values
Median(col) ==
    LET n == Len(col)
    IN  IF n % 2 = 1 THEN KthSmallest(col, (n + 1) \div 2)
        ELSE Div(Add(KthSmallest(col, n \div 2), KthSmallest(col, n \div 2 + 1)), Flt(2))

\* the most frequent entry of a non-empty sequence, the smallest among ties
MostFrequent(col) ==
    col[CHOOSE i \in 1..Len(col) :
            \A j \in 1..Len(col) :
                \/ CountIn(col, col[j]) < CountIn(col, col[i])
                \/ CountIn(col, col[j]) = CountIn(col, col[i]) /\ ~Less(col[j], col[i])]

\* SimpleImputer(strategy).fit: statistics_, NaN for a column never observed
SimpleImputer_fit(strategy, M) ==
    [j \in 1..M.ncols |->
        LET seen == Observed(ColumnOf(M, j))
        IN  IF seen = <<>> THEN NaN
            ELSE IF strategy = "median" THEN Median(seen) ELSE MostFrequent(seen)]

\* one row through SimpleImputer.transform: a column whose statistic is NaN
\* (never observed at fit) is discarded, a missing entry gets the statistic
ImputedRow(statistics, row) ==
    LET upto[j \in 0..Len(row)] ==
            IF j = 0 THEN <<>>
            ELSE IF IsNaN(statistics[j]) THEN upto[j - 1]
            ELSE Append(upto[j - 1], IF IsNaN(row[j]) THEN statistics[j] ELSE row[j])
    IN  upto[Len(row)]

\* SimpleImputer.transform
SimpleImputer_transform(statistics, M) ==
    [ncols |-> Cardinality({j \in 1..M.ncols : ~IsNaN(statistics[j])}),
     rows |-> [r \in 1..Len(M.rows) |-> ImputedRow(statistics, M.rows[r])]]

HasInf(M) == \E r \in 1..Len(M.rows) : \E j \in 1..M.ncols : IsInf(M.rows[r][j])

RECURSIVE SumOf(_)
SumOf(col) == IF col = <<>> THEN Flt(0) ELSE Add(col[1], SumOf(Tail(col)))

MeanOf(col) == Div(SumOf(col), Flt(Len(col)))

\* population variance
VarOf(col) ==
    LET m == MeanOf(col)
    IN  MeanOf([i \in 1..Len(col) |-> Mul(Sub(col[i], m), Sub(col[i], m))])

\* StandardScaler(with_mean).fit on a matrix without inf: mean_ and var_ of the
\* entries that are not NaN (a column of NaN only keeps NaN)
StandardScaler_fit(with_mean, M) ==
    [j \in 1..M.ncols |->
        LET seen == Observed(ColumnOf(M, j))
        IN  IF seen = <<>> THEN [mean |-> NaN, var |-> NaN]
            ELSE [mean |-> IF with_mean THEN MeanOf(seen) ELSE Flt(0), var |-> VarOf(seen)]]

\* a scaled value (x - mean) / sqrt(var), kept as the pair of x - mean and the
\* squared scale; scikit-learn scales by 1 where the variance is 0
Scaled(x, stat) ==
    [num |-> Sub(x, stat.mean),
     scale2 |-> IF stat.var = Flt(0) \/ IsNaN(stat.var) THEN Flt(1) ELSE stat.var]

\* a value that no scaler touched
Raw(x) == [num |-> x, scale2 |-> Flt(1)]

\* StandardScaler.transform
StandardScaler_transform(stats, M) ==
    [ncols |-> M.ncols,
     rows |-> [r \in 1..Len(M.rows) |->
                 [j \in 1..M.ncols |-> Scaled(M.rows[r][j], stats[j])]]]

RECURSIVE SortedSeq(_)
\* the finite values of a set in increasing order
SortedSeq(S) ==
    IF S = {} THEN <<>>
    ELSE LET least == CHOOSE v \in S : \A u \in S : ~Less(u, v)
         IN  <<least>> \o SortedSeq(S \ {least})

\* OneHotEncoder().fit: categories_, per column the sorted values seen
OneHotEncoder_fit(M) ==
    [j \in 1..M.ncols |-> SortedSeq({M.rows[r][j] : r \in 1..Len(M.rows)})]

\* handle_unknown='error': a value not among the categories of its column
HasUnknownCategory(categories, M) ==
    \E r \in 1..Len(M.rows) : \E j \in 1..M.ncols :
        \A k \in 1..Len(categories[j]) : categories[j][k] # M.rows[r][j]

RECURSIVE Flatten(_)
Flatten(seqs) == IF seqs = <<>> THEN <<>> ELSE seqs[1] \o Flatten(Tail(seqs))

\* OneHotEncoder.transform: per column one indicator per category
OneHotEncoder_transform(categories, M) ==
    [ncols |-> Len(Flatten(categories)),
     rows |-> [r \in 1..Len(M.rows) |->
                 Flatten([j \in 1..M.ncols |->
                            [k \in 1..Len(categories[j]) |->
                                IF categories[j][k] = M.rows[r][j] THEN Flt(1) ELSE Flt(0)]])]]

---------------------------------------------------------------------------
(* The two pipelines and the ColumnTransformer of                          *)
(* get_data_transformer_object                                             *)

NotFitted == [statistics |-> <<>>, categories |-> <<>>, scale |-> <<>>]

Failed(e) == [raised |-> e, learned |-> NotFitted, value |-> NoMatrix]

\* num_pipeline, the steps after the imputer: FeautureGenrator, scaler.
\* StandardScaler refuses a matrix that holds an inf.
num_pipeline_tail(generator, statistics, scale, M) ==
    LET imputed == SimpleImputer_transform(statistics, M)
        generated == transform(generator, imputed)
        stats == IF scale = <<>> THEN StandardScaler_fit(TRUE, generated.value) ELSE scale
    IN  IF generated.raised # NoError THEN Failed(generated.raised)
        ELSE IF HasInf(generated.value) THEN Failed(<<"ValueError">>)
        ELSE [raised |-> NoError,
              learned |-> [statistics |-> statistics, categories |-> <<>>, scale |-> stats],
              value |-> StandardScaler_transform(stats, generated.value)]

\* num_pipeline.fit_transform
num_pipeline_fit_transform(generator, M) ==
    num_pipeline_tail(generator, SimpleImputer_fit("median", M), <<>>, M)

\* num_pipeline.transform
num_pipeline_transform(generator, learned, M) ==
    num_pipeline_tail(generator, learned.statistics, learned.scale, M)

\* cat_pipeline.fit_transform: imputer, OneHotEncoder, scaler without centering.
\* OneHotEncoder refuses a matrix without columns.
cat_pipeline_fit_transform(M) ==
    LET statistics == SimpleImputer_fit("most_frequent", M)
        imputed == SimpleImputer_transform(statistics, M)
        categories == OneHotEncoder_fit(imputed)
        encoded == OneHotEncoder_transform(categories, imputed)
        stats == StandardScaler_fit(FALSE, encoded)
    IN  IF imputed.ncols = 0 THEN Failed(<<"ValueError">>)
        ELSE [raised |-> NoError,
              learned |-> [statistics |-> statistics, categories |-> categories, scale |-> stats],
              value |-> StandardScaler_transform(stats, encoded)]

\* cat_pipeline.transform: OneHotEncoder() raises on a category unseen at fit
cat_pipeline_transform(learned, M) ==
    LET imputed == SimpleImputer_transform(learned.statistics, M)
        encoded == OneHotEncoder_transform(learned.categories, imputed)
    IN  IF HasUnknownCategory(learned.categories, imputed) THEN Failed(<<"ValueError">>)
        ELSE [raised |-> NoError, learned |-> learned,
              value |-> StandardScaler_transform(learned.scale, encoded)]

\* a table (pandas DataFrame): its column names in order and its rows, each a
\* function from column name to value
Range(seq) == {seq[i] : i \in 1..Len(seq)}

\* the columns `names` of a table, selected by name, as a matrix
Route(table, names) ==
    [ncols |-> Len(names),
     rows |-> [r \in 1..Len(table.rows) |->
                 [j \in 1..Len(names) |-> table.rows[r][names[j]]]]]

RemainderPassthrough(table, routed) ==
    Route(table, SelectSeq(table.columns, LAMBDA c : c \notin routed))

\* ColumnTransformer(remainder='drop'), the default: the columns routed to no
\* pipeline contribute nothing
Remainder(table, routed) == Route(table, <<>>)

hstack(A, B) ==
    [ncols |-> A.ncols + B.ncols,
     rows |-> [r \in 1..Len(A.rows) |-> A.rows[r] \o B.rows[r]]]

Unscaled(M) ==
    [ncols |-> M.ncols,
     rows |-> [r \in 1..Len(M.rows) |-> [j \in 1..M.ncols |-> Raw(M.rows[r][j])]]]

NotFittedYet == [num |-> NotFitted, cat |-> NotFitted]

\* the result of the ColumnTransformer on a table, given what each pipeline
\* returned; a column named in the schema lists and absent raises
ColumnTransformer_result(obj, table, num, cat) ==
    LET routed == Range(obj.numerical_columns) \cup Range(obj.categorical_columns)
    IN  IF ~(routed \subseteq Range(table.columns))
        THEN [raised |-> <<"ValueError">>, learned |-> NotFittedYet, value |-> NoMatrix]
        ELSE IF num.raised # NoError
        THEN [raised |-> num.raised, learned |-> NotFittedYet, value |-> NoMatrix]
        ELSE IF cat.raised # NoError
        THEN [raised |-> cat.raised, learned |-> NotFittedYet, value |-> NoMatrix]
        ELSE [raised |-> NoError,
              learned |-> [num |-> num.learned, cat |-> cat.learned],
              value |-> hstack(hstack(num.value, cat.value),
                               Unscaled(Remainder(table, routed)))]

\* preprocessing.fit_transform(table)
ColumnTransformer_fit_transform(obj, table) ==
    ColumnTransformer_result(obj, table,
        num_pipeline_fit_transform(obj.generator, Route(table, obj.numerical_columns)),
        cat_pipeline_fit_transform(Route(table, obj.categorical_columns)))

\* preprocessing.transform(table), preprocessing fitted
ColumnTransformer_transform(obj, table) ==
    ColumnTransformer_result(obj, table,
        num_pipeline_transform(obj.generator, obj.learned.num,
                               Route(table, obj.numerical_columns)),
        cat_pipeline_transform(obj.learned.cat, Route(table, obj.categorical_columns)))

---------------------------------------------------------------------------
(* DataTransformation *)

NoTable == [columns |-> <<>>, rows |-> <<>>]

NoObject ==
    [numerical_columns |-> <<>>, categorical_columns |-> <<>>,
     generator |-> NoInstance, fitted |-> FALSE, learned |-> NotFittedYet]

NoArrays ==
    [input_feature_train_arr |-> NoMatrix, input_feature_test_arr |-> NoMatrix,
     train_arr |-> NoMatrix, test_arr |-> NoMatrix]

NoArtifact ==
    [transformed_train_file_path |-> <<>>, transformed_test_file_path |-> <<>>,
     preprocessing_object_file_path |-> <<>>, is_transformed |-> FALSE, message |-> ""]

except_clause_bare(e) == e

\* except Exception as e: raise HousingException(e, sys) from e
except_clause(e) == HousingException(e)

\* get_data_transformer_object, given what read_yaml_file returned or raised
get_data_transformer_object(read) ==
    LET generator == FeatureGenerator_init(
            [DefaultArgs EXCEPT !.add_bedrooms_per_room = TRUE,
                                !.columns = GivenColumns(read.value.numerical_columns)])
    IN  IF read.raised # NoError
        THEN [raised |-> except_clause(read.raised), value |-> NoObject]
        ELSE IF generator.raised # NoError
        THEN [raised |-> except_clause(generator.raised), value |-> NoObject]
        ELSE [raised |-> NoError,
              value |-> [numerical_columns |-> read.value.numerical_columns,
                         categorical_columns |-> read.value.categorical_columns,
                         generator |-> generator.self,
                         fitted |-> FALSE, learned |-> NotFittedYet]]

\* df.drop(columns=[c], axis=1)
drop(table, c) ==
    [columns |-> SelectSeq(table.columns, LAMBDA n : n # c),
     rows |-> [r \in 1..Len(table.rows) |->
                 [n \in Range(table.columns) \ {c} |-> table.rows[r][n]]]]

FitInputPooled(train, test, target) ==
    LET common == SelectSeq(train.columns, LAMBDA c : c \in Range(test.columns) \ {target})
    IN  [columns |-> common,
         rows |-> [r \in 1..(Len(train.rows) + Len(test.rows)) |->
                     [c \in Range(common) |->
                         IF r <= Len(train.rows) THEN train.rows[r][c]
                         ELSE test.rows[r - Len(train.rows)][c]]]]

\* the table preprocessing_obj.fit_transform is called on (lines 144 and 151)
FitInput(train, test, target) == drop(train, target)

\* np.c_[arr, np.array(df[target])]
WithTarget(arr, table, target) ==
    [ncols |-> arr.ncols + 1,
     rows |-> [r \in 1..Len(arr.rows) |-> Append(arr.rows[r], Raw(table.rows[r][target]))]]

\* the file is put before those already written
WriteFileFirst(files, path, content) == <<[path |-> path, content |-> content]>> \o files

\* save_numpy_array_data / save_object: the file is added to those written
WriteFile(files, path, content) == Append(files, [path |-> path, content |-> content])

\* a step raised e: the except clause of initiate_data_tranformation
Raise(e) ==
    /\ pc' = "raised"
    /\ error' = except_clause(e)
    /\ UNCHANGED artifact

\* what a call of an external helper may do: return, or raise one of `errors`
Outcomes(value, none, errors) ==
    {[raised |-> NoError, value |-> value]}
        \cup {[raised |-> <<e>>, value |-> none] : e \in errors}

\* preprocessing_obj = self.get_data_transformer_object()
GetDataTransformerObject ==
    /\ pc = "get_data_transformer_object"
    /\ steps' = Append(steps, "get_data_transformer_object")
    /\ \E read \in Outcomes(schema_file, schema_file, {"FileNotFoundError"}) :
         LET got == get_data_transformer_object(read)
         IN  IF got.raised # NoError
             THEN Raise(got.raised) /\ UNCHANGED preprocessing_obj
             ELSE /\ preprocessing_obj' = got.value
                  /\ pc' = "load_train"
                  /\ UNCHANGED <<artifact, error>>
    /\ UNCHANGED <<fgVars, pathVars, schema_file, train_df, test_df, target_colname,
                   arrays, saved>>

\* train_df = load_data(train_file_path, schema_path)
LoadTrain(tables) ==
    /\ pc = "load_train"
    /\ steps' = Append(steps, "load_train")
    /\ \E t \in tables : \E got \in Outcomes(t, NoTable, {"FileNotFoundError"}) :
         IF got.raised # NoError
         THEN Raise(got.raised) /\ UNCHANGED train_df
         ELSE /\ train_df' = got.value
              /\ pc' = "load_test"
              /\ UNCHANGED <<artifact, error>>
    /\ UNCHANGED <<fgVars, pathVars, schema_file, preprocessing_obj, test_df,
                   target_colname, arrays, saved>>

\* test_df = load_data(test_file_path, schema_path)
LoadTest(tables) ==
    /\ pc = "load_test"
    /\ steps' = Append(steps, "load_test")
    /\ \E t \in tables : \E got \in Outcomes(t, NoTable, {"FileNotFoundError"}) :
         IF got.raised # NoError
         THEN Raise(got.raised) /\ UNCHANGED test_df
         ELSE /\ test_df' = got.value
              /\ pc' = "read_schema"
              /\ UNCHANGED <<artifact, error>>
    /\ UNCHANGED <<fgVars, pathVars, schema_file, preprocessing_obj, train_df,
                   target_colname, arrays, saved>>

\* schema = read_yaml_file(schema_path); target_colname = schema[TARGET_COLUMN_KEY]
ReadTargetColumn ==
    /\ pc = "read_schema"
    /\ steps' = Append(steps, "read_schema")
    /\ \E got \in Outcomes(schema_file, schema_file, {"FileNotFoundError"}) :
         IF got.raised # NoError
         THEN Raise(got.raised) /\ UNCHANGED target_colname
         ELSE /\ target_colname' = got.value.target_column
              /\ pc' = "split"
              /\ UNCHANGED <<artifact, error>>
    /\ UNCHANGED <<fgVars, pathVars, schema_file, preprocessing_obj, train_df, test_df,
                   arrays, saved>>

\* lines 144-148: drop and select the target column of both tables (KeyError
\* when a table has no such column)
SplitTarget ==
    /\ pc = "split"
    /\ steps' = Append(steps, "split")
    /\ IF target_colname \notin Range(train_df.columns) \cap Range(test_df.columns)
       THEN Raise(<<"KeyError">>)
       ELSE pc' = "fit_transform" /\ UNCHANGED <<artifact, error>>
    /\ UNCHANGED <<fgVars, pathVars, schema_file, preprocessing_obj, train_df, test_df,
                   target_colname, arrays, saved>>

\* input_feature_train_arr = preprocessing_obj.fit_transform(input_feauture_train)
FitTransformTrain ==
    /\ pc = "fit_transform"
    /\ steps' = Append(steps, "fit_transform")
    /\ LET got == ColumnTransformer_fit_transform(
                      preprocessing_obj, FitInput(train_df, test_df, target_colname))
       IN  IF got.raised # NoError
           THEN Raise(got.raised) /\ UNCHANGED <<preprocessing_obj, arrays>>
           ELSE /\ preprocessing_obj' =
                        [preprocessing_obj EXCEPT !.fitted = TRUE, !.learned = got.learned]
                /\ arrays' = [arrays EXCEPT !.input_feature_train_arr = got.value]
                /\ pc' = "transform"
                /\ UNCHANGED <<artifact, error>>
    /\ UNCHANGED <<fgVars, pathVars, schema_file, train_df, test_df, target_colname, saved>>

\* input_feature_test_arr = preprocessing_obj.transform(input_feauture_test)
TransformTest ==
    /\ pc = "transform"
    /\ steps' = Append(steps, "transform")
    /\ LET got == ColumnTransformer_transform(preprocessing_obj, drop(test_df, target_colname))
       IN  IF got.raised # NoError
           THEN Raise(got.raised) /\ UNCHANGED arrays
           ELSE /\ arrays' = [arrays EXCEPT !.input_feature_test_arr = got.value]
                /\ pc' = "concatenate"
                /\ UNCHANGED <<artifact, error>>
    /\ UNCHANGED <<fgVars, pathVars, schema_file, preprocessing_obj, train_df, test_df,
                   target_colname, saved>>

\* lines 154-164: train_arr, test_arr, file_path_train, file_path_test
Concatenate ==
    /\ pc = "concatenate"
    /\ steps' = Append(steps, "concatenate")
    /\ arrays' = [arrays EXCEPT
                    !.train_arr = WithTarget(arrays.input_feature_train_arr,
                                             train_df, target_colname),
                    !.test_arr = WithTarget(arrays.input_feature_test_arr,
                                            test_df, target_colname)]
    /\ file_paths' = FilePaths(config)
    /\ pc' = "save_train"
    /\ UNCHANGED <<fgVars, config, schema_file, preprocessing_obj, train_df, test_df,
                   target_colname, saved, artifact, error>>

\* one of the three writes, in the order of lines 167, 168, 172
Save(at, path, content, next) ==
    /\ pc = at
    /\ steps' = Append(steps, at)
    /\ \E got \in Outcomes(path, path, {"OSError"}) :
         IF got.raised # NoError
         THEN Raise(got.raised) /\ UNCHANGED saved
         ELSE /\ saved' = WriteFile(saved, path, content)
              /\ pc' = next
              /\ UNCHANGED <<artifact, error>>
    /\ UNCHANGED <<fgVars, pathVars, schema_file, preprocessing_obj, train_df, test_df,
                   target_colname, arrays>>

\* save_numpy_array_data(file_path=file_path_train, array=train_arr)
SaveTrainArray == Save("save_train", file_paths.file_path_train, "train_arr", "save_test")

\* save_numpy_array_data(file_path=file_path_test, array=test_arr)
SaveTestArray == Save("save_test", file_paths.file_path_test, "test_arr", "save_object")

\* save_object(file_path=preprocessing_object_file_path, obj=preprocessing_obj)
SaveObject ==
    Save("save_object", config.preprocessed_object_file_path, "preprocessing_obj", "return")

\* lines 174-182: the artifact is built and returned
Return ==
    /\ pc = "return"
    /\ steps' = Append(steps, "return")
    /\ artifact' =
          [transformed_train_file_path |-> file_paths.file_path_train,
           transformed_test_file_path |-> file_paths.file_path_test,
           preprocessing_object_file_path |-> config.preprocessed_object_file_path,
           is_transformed |-> TRUE,
           message |-> "Data transformation completed"]
    /\ pc' = "done"
    /\ UNCHANGED <<fgVars, pathVars, schema_file, preprocessing_obj, train_df, test_df,
                   target_colname, arrays, saved, error>>

---------------------------------------------------------------------------
(* Inputs of the FeatureGenerator specifications *)

\* the values a cell of a matrix handed to FeatureGenerator.transform may hold
Vals == {Flt(0), Flt(1), Flt(2)}

SeqsOf(S, n) == [1..n -> S]

MatricesOf(widths, vals) ==
    UNION {{[ncols |-> w, rows |-> rs] : rs \in SeqsOf(SeqsOf(vals, w), k)} :
           <<w, k>> \in widths \X (1..MaxRows)}

\* column-name lists without repetition drawn from `names`, of the given lengths
NameLists(names, lens) ==
    UNION {{s \in SeqsOf(names, n) : \A i, j \in 1..n : s[i] = s[j] => i = j} : n \in lens}

IdleFG ==
    /\ args = DefaultArgs
    /\ fg = NoInstance
    /\ X = NoMatrix
    /\ result = NoMatrix
    /\ raised = NoError
    /\ op = "none"

DefaultConfig ==
    [train_file_path |-> <<"i", "/", "h", ".", "c", "s", "v">>,
     test_file_path |-> <<"j", "/", "h", ".", "c", "s", "v">>,
     transformed_train_dir |-> <<"t", "r">>,
     transformed_test_dir |-> <<"t", "e">>,
     preprocessed_object_file_path |-> <<"p", "/", "o">>]

IdlePaths ==
    /\ config = DefaultConfig
    /\ file_paths = NoPaths

NoSchema == [numerical_columns |-> <<>>, categorical_columns |-> <<>>, target_column |-> ""]

IdlePipeline ==
    /\ pc = "idle"
    /\ schema_file = NoSchema
    /\ preprocessing_obj = NoObject
    /\ train_df = NoTable
    /\ test_df = NoTable
    /\ target_colname = ""
    /\ arrays = NoArrays
    /\ steps = <<>>
    /\ saved = <<>>
    /\ artifact = NoArtifact
    /\ error = NoError

InitFG ==
    /\ IdlePaths
    /\ IdlePipeline
    /\ args = DefaultArgs
    /\ fg = NoInstance
    /\ X = NoMatrix
    /\ result = NoMatrix
    /\ raised = NoError
    /\ op = "none"

\* fg = FeatureGenerator(**a)
Construct(a) ==
    /\ op = "none"
    /\ args' = a
    /\ fg' = FeatureGenerator_init(a).self
    /\ raised' = FeatureGenerator_init(a).raised
    /\ X' = NoMatrix
    /\ result' = NoMatrix
    /\ op' = "init"
    /\ UNCHANGED <<pathVars, pipeVars>>

\* fg.fit(M)
Fit(M) ==
    /\ fg.ok
    /\ op = "init"
    /\ fg' = fit(fg, M)
    /\ UNCHANGED <<args, X, result, raised, op>>
    /\ UNCHANGED <<pathVars, pipeVars>>

\* fg.transform(M)
Transform(M) ==
    /\ fg.ok
    /\ op = "init"
    /\ X' = M
    /\ result' = transform(fg, M).value
    /\ raised' = transform(fg, M).raised
    /\ op' = "transform"
    /\ UNCHANGED <<args, fg>>
    /\ UNCHANGED <<pathVars, pipeVars>>

(* SpecBounds: every way of constructing a generator, narrow matrices *)

AllNames == RequiredNames \cup {"median_income"}

\* explicit indices: on one column -1, 0 are valid and -2, 1 are not
IdxRange == -2..1

BoundsArgs ==
    {[DefaultArgs EXCEPT !.add_bedrooms_per_room = f, !.columns = GivenColumns(s),
                         !.total_rooms_ix = i]
        : f \in BOOLEAN, s \in NameLists(AllNames, 3..5), i \in {DefaultTotalRoomsIx, 0}}
    \cup
    {[add_bedrooms_per_room |-> f, total_rooms_ix |-> tr, population_ix |-> po,
      households_ix |-> hh, total_bedrooms_ix |-> tb, columns |-> NoColumns]
        : f \in BOOLEAN, tr \in IdxRange, po \in IdxRange, hh \in IdxRange, tb \in IdxRange}
    \cup {DefaultArgs}

BoundsMatrices == MatricesOf({1, 2}, Vals)

\* fit ignores its argument: one-row matrices are enough
OneRow(Ms) == {M \in Ms : Len(M.rows) = 1}

NextBounds ==
    \/ \E a \in BoundsArgs : Construct(a)
    \/ \E M \in OneRow(BoundsMatrices) : Fit(M)
    \/ \E M \in BoundsMatrices : Transform(M)

SpecBounds == InitFG /\ [][NextBounds]_vars

(* SpecFeatures: generators resolved from a column-name list, full rows *)

FeatureArgs ==
    {[DefaultArgs EXCEPT !.add_bedrooms_per_room = f, !.columns = GivenColumns(s)]
        : f \in BOOLEAN, s \in NameLists(RequiredNames, 3..4)}

FeatureMatrices == MatricesOf({3, 4}, Vals)

NextFeatures ==
    \/ \E a \in FeatureArgs : Construct(a)
    \/ \E M \in OneRow(FeatureMatrices) : Fit(M)
    \/ \E M \in FeatureMatrices : Transform(M)

SpecFeatures == InitFG /\ [][NextFeatures]_vars

---------------------------------------------------------------------------
(* SpecPaths: the output file names derived from the source file paths *)

PathSegments ==
    {<<"h">>, <<"/">>, <<"c", "s", "v">>, DotCsv, <<".", "t", "x", "t">>}

RECURSIVE PathsOf(_)
\* the strings made of 1 .. n segments
PathsOf(n) ==
    IF n = 0 THEN {<<>>}
    ELSE LET shorter == PathsOf(n - 1)
         IN  (shorter \ {<<>>}) \cup {p \o g : p \in shorter, g \in PathSegments}

\* a source file path names a file: its base name is not empty
SourcePaths == {p \in PathsOf(MaxSegments) : basename(p) # <<>>}

OutputDirs == {<<>>, <<"o">>, <<"o", "/">>}

PathConfigs ==
    {[DefaultConfig EXCEPT !.train_file_path = p, !.transformed_train_dir = d]
        : p \in SourcePaths, d \in OutputDirs}
    \cup
    {[DefaultConfig EXCEPT !.test_file_path = p, !.transformed_test_dir = d]
        : p \in SourcePaths, d \in OutputDirs}

InitPaths ==
    /\ IdleFG
    /\ IdlePipeline
    /\ config \in PathConfigs
    /\ file_paths = NoPaths

DeriveFilePaths ==
    /\ file_paths = NoPaths
    /\ file_paths' = FilePaths(config)
    /\ UNCHANGED <<config, fgVars, pipeVars>>

NextPaths == DeriveFilePaths

SpecPaths == InitPaths /\ [][NextPaths]_vars

\* os.path.splitext(name)[0]: the name up to its last dot, leading dots kept
RECURSIVE LeadingDots(_)
LeadingDots(s) == IF s # <<>> /\ s[1] = "." THEN 1 + LeadingDots(Tail(s)) ELSE 0

Stem(name) ==
    IF LastIndexOf(name, ".") > LeadingDots(name)
    THEN SubSeq(name, 1, LastIndexOf(name, ".") - 1)
    ELSE name

HasExtension(name) == LastIndexOf(name, ".") > LeadingDots(name)

ExtensionReplaced(dir, path) == join(dir, Stem(basename(path)) \o DotNpz)

\* C8: the output array file name is the source file's base name with its
\* extension, and only its extension, replaced by .npz, joined under the
\* configured train or test output directory.
C8_ExtensionReplaced ==
    file_paths # NoPaths
    => /\ HasExtension(basename(config.train_file_path))
          => file_paths.file_path_train
               = ExtensionReplaced(config.transformed_train_dir, config.train_file_path)
       /\ HasExtension(basename(config.test_file_path))
          => file_paths.file_path_test
               = ExtensionReplaced(config.transformed_test_dir, config.test_file_path)

\* what does hold: for a base name that ends in .csv and holds .csv nowhere else
C8_PlainCsv ==
    (/\ file_paths # NoPaths
     /\ Len(basename(config.train_file_path)) > 4
     /\ replace(Stem(basename(config.train_file_path)), DotCsv, <<>>)
            = Stem(basename(config.train_file_path))
     /\ basename(config.train_file_path)
            = Stem(basename(config.train_file_path)) \o DotCsv)
    => file_paths.file_path_train
         = ExtensionReplaced(config.transformed_train_dir, config.train_file_path)

---------------------------------------------------------------------------
(* Spec: one call of initiate_data_tranformation *)

\* train tables have 1 .. MaxTrainRows rows
MaxTrainRows == 2

NUMERICAL_COLUMNS ==
    <<"total_rooms", "total_bedrooms", "population", "households", "median_income">>

CATEGORICAL_COLUMNS == <<"ocean_proximity">>

TARGET_COLUMN == "median_house_value"

\* schema files: the housing schema, and one whose numerical columns lack households
SchemaFiles ==
    {[numerical_columns |-> NUMERICAL_COLUMNS,
      categorical_columns |-> CATEGORICAL_COLUMNS, target_column |-> TARGET_COLUMN],
     [numerical_columns |-> <<"total_rooms", "total_bedrooms", "population">>,
      categorical_columns |-> CATEGORICAL_COLUMNS, target_column |-> TARGET_COLUMN]}

\* ocean_proximity values, numbered in their sort order
INLAND == Flt(1)
NEAR_BAY == Flt(2)
NEAR_OCEAN == Flt(3)

Row(rooms, bedrooms, pop, hh, income, ocean, value) ==
    [longitude |-> Flt(7), total_rooms |-> rooms, total_bedrooms |-> bedrooms,
     population |-> pop, households |-> hh, median_income |-> income,
     ocean_proximity |-> ocean, median_house_value |-> value]

\* rows a table is made of: complete; bedrooms missing; no households;
\* income and ocean_proximity missing; an ocean_proximity of its own
TrainRows ==
    {Row(Flt(4), Flt(2), Flt(6), Flt(2), Flt(1), INLAND, Flt(1)),
     Row(Flt(2), NaN, Flt(2), Flt(1), Flt(3), NEAR_BAY, Flt(2)),
     Row(Flt(2), Flt(1), Flt(4), Flt(0), Flt(1), INLAND, Flt(1)),
     Row(Flt(6), Flt(2), Flt(2), Flt(2), NaN, NaN, Flt(2))}

TestRows ==
    {Row(Flt(4), Flt(2), Flt(6), Flt(2), Flt(1), INLAND, Flt(1)),
     Row(Flt(6), NaN, Flt(2), Flt(2), NaN, NaN, Flt(2)),
     Row(Flt(2), Flt(1), Flt(4), Flt(1), Flt(1), NEAR_OCEAN, Flt(1))}

PlainColumns ==
    <<"total_rooms", "total_bedrooms", "population", "households", "median_income",
      "median_house_value", "ocean_proximity">>

ExtraColumns == <<"longitude">> \o PlainColumns

NoTargetColumns == SelectSeq(PlainColumns, LAMBDA c : c # TARGET_COLUMN)

\* the tables with the given columns and 1 .. n rows drawn from `rows`
TablesOf(columnss, rows, n) ==
    UNION {{[columns |-> cs,
             rows |-> [r \in 1..k |-> [c \in Range(cs) |-> rs[r][c]]]]
               : cs \in columnss, rs \in SeqsOf(rows, k)} : k \in 1..n}

TrainTables == TablesOf({PlainColumns, ExtraColumns, NoTargetColumns}, TrainRows, MaxTrainRows)

TestTables == TablesOf({PlainColumns, ExtraColumns}, TestRows, 2)

Init ==
    /\ IdleFG
    /\ IdlePaths
    /\ pc = "get_data_transformer_object"
    /\ schema_file \in SchemaFiles
    /\ preprocessing_obj = NoObject
    /\ train_df = NoTable
    /\ test_df = NoTable
    /\ target_colname = ""
    /\ arrays = NoArrays
    /\ steps = <<>>
    /\ saved = <<>>
    /\ artifact = NoArtifact
    /\ error = NoError

Next ==
    \/ GetDataTransformerObject
    \/ LoadTrain(TrainTables)
    \/ LoadTest(TestTables)
    \/ ReadTargetColumn
    \/ SplitTarget
    \/ FitTransformTrain
    \/ TransformTest
    \/ Concatenate
    \/ SaveTrainArray
    \/ SaveTestArray
    \/ SaveObject
    \/ Return

Spec == Init /\ [][Next]_vars

---------------------------------------------------------------------------
(* Claims about initiate_data_tranformation *)

Count(seq, x) == Cardinality({i \in 1..Len(seq) : seq[i] = x})

IsPrefix(a, b) == Len(a) <= Len(b) /\ a = SubSeq(b, 1, Len(a))

\* C4: the transformer is fitted once, on the training inputs only; the test
\* inputs only go through transform, after that fit; what the transformer has
\* learned and the transformed train array are the same whatever the test table.
C4_FitOnTrainOnly ==
    /\ Count(steps, "fit_transform") <= 1
    /\ Count(steps, "transform") <= 1
    /\ \A i \in 1..Len(steps) :
          steps[i] = "transform" => \E j \in 1..(i - 1) : steps[j] = "fit_transform"
    /\ pc = "done" => Count(steps, "fit_transform") = 1 /\ Count(steps, "transform") = 1
    /\ preprocessing_obj.fitted
          <=> /\ Count(steps, "fit_transform") = 1
              /\ ~(pc = "raised" /\ steps[Len(steps)] = "fit_transform")
    /\ preprocessing_obj.fitted =>
          \A other \in TestTables :
              LET run == ColumnTransformer_fit_transform(
                             preprocessing_obj, FitInput(train_df, other, target_colname))
              IN  /\ preprocessing_obj.learned = run.learned
                  /\ arrays.input_feature_train_arr = run.value

C4_Witness ==
    /\ pc = "done"
    /\ steps[6] = "fit_transform" /\ steps[7] = "transform"
    /\ Len(train_df.rows) = 2 /\ train_df.rows[1] # train_df.rows[2]
    /\ test_df.rows[1].ocean_proximity = NaN
    /\ preprocessing_obj.learned.cat.categories = <<<<INLAND, NEAR_BAY>>>>

OriginalCauses(step) ==
    CASE step = "get_data_transformer_object" -> {"FileNotFoundError", "ValueError"}
      [] step \in {"load_train", "load_test", "read_schema"} -> {"FileNotFoundError"}
      [] step = "split" -> {"KeyError"}
      [] step \in {"fit_transform", "transform"} -> {"ValueError", "IndexError"}
      [] step \in {"save_train", "save_test", "save_object"} -> {"OSError"}
      [] OTHER -> {}

\* C5: when a step fails the call ends raising HousingException, which carries
\* the exception of the step that failed; no artifact is returned, nothing
\* runs after the failure and no step runs twice.
C5_FailureRaises ==
    /\ pc = "raised" <=> error # NoError
    /\ pc = "raised" =>
          /\ error[1] = "HousingException"
          /\ \A i \in 1..(Len(error) - 1) : error[i] = "HousingException"
          /\ error[Len(error)] \in OriginalCauses(steps[Len(steps)])
          /\ artifact = NoArtifact
          /\ ~ENABLED Next
    /\ artifact # NoArtifact => pc = "done" /\ error = NoError
    /\ \A i, j \in 1..Len(steps) : steps[i] = steps[j] => i = j

C5_Witness ==
    /\ pc = "raised"
    /\ steps[Len(steps)] = "transform"
    /\ error = <<"HousingException", "ValueError">>
    /\ preprocessing_obj.fitted
    /\ artifact = NoArtifact

CategoryCount == Len(Flatten(preprocessing_obj.learned.cat.categories))

ShapeOf(arr, table) ==
    /\ Len(arr.rows) = Len(table.rows)
    /\ arr.ncols = Len(schema_file.numerical_columns) + 3 + CategoryCount + 1
    /\ \A r \in 1..Len(arr.rows) :
          /\ Len(arr.rows[r]) = arr.ncols
          /\ arr.rows[r][arr.ncols] = Raw(table.rows[r][schema_file.target_column])

RecordOfWrites ==
    /\ artifact.is_transformed
    /\ Len(saved) = 3
    /\ artifact.transformed_train_file_path = saved[1].path
    /\ artifact.transformed_test_file_path = saved[2].path
    /\ artifact.preprocessing_object_file_path = saved[3].path

\* C6: after a successful run each array has the rows of its table and
\* numeric columns + 3 + one-hot categories + 1 columns, the last one the
\* target as loaded; the record has the success flag and the three paths written.
C6_ShapeAndRecord ==
    pc = "done"
    => /\ ShapeOf(arrays.train_arr, train_df)
       /\ ShapeOf(arrays.test_arr, test_df)
       /\ RecordOfWrites

\* every numerical column of the schema has a value in some row of the train table
EveryNumericObserved ==
    \A c \in Range(schema_file.numerical_columns) :
        \E r \in 1..Len(train_df.rows) : ~IsNaN(train_df.rows[r][c])

\* what does hold of C6: the shape, when no numerical column is empty at fit
C6_ShapeWhenObserved ==
    (pc = "done" /\ EveryNumericObserved)
    => /\ ShapeOf(arrays.train_arr, train_df)
       /\ ShapeOf(arrays.test_arr, test_df)
       /\ RecordOfWrites

\* the columns of a table the schema names nowhere
Unlisted(table) ==
    Range(table.columns)
        \ (Range(schema_file.numerical_columns) \cup Range(schema_file.categorical_columns)
               \cup {schema_file.target_column})

RECURSIVE WithoutColumns(_, _)
WithoutColumns(table, cs) ==
    IF cs = {} THEN table
    ELSE LET c == CHOOSE x \in cs : TRUE
         IN  WithoutColumns(drop(table, c), cs \ {c})

\* C7: a table with a column named in neither schema list (and not the target)
\* gives a transformed array as wide as the same table without that column.
C7_UnlistedColumnDropped ==
    /\ (arrays.input_feature_train_arr # NoMatrix /\ Unlisted(train_df) # {})
        => arrays.input_feature_train_arr.ncols
             = ColumnTransformer_fit_transform(preprocessing_obj,
                   drop(WithoutColumns(train_df, Unlisted(train_df)), target_colname)).value.ncols
    /\ (arrays.input_feature_test_arr # NoMatrix /\ Unlisted(test_df) # {})
        => arrays.input_feature_test_arr.ncols
             = ColumnTransformer_transform(preprocessing_obj,
                   drop(WithoutColumns(test_df, Unlisted(test_df)), target_colname)).value.ncols

C7_Witness ==
    /\ arrays.input_feature_test_arr # NoMatrix
    /\ "longitude" \in Range(train_df.columns)
    /\ "longitude" \in Range(test_df.columns)
    /\ arrays.input_feature_train_arr.ncols = 10
    /\ arrays.input_feature_test_arr.ncols = 10

ExpectedWrites ==
    <<[path |-> file_paths.file_path_train, content |-> "train_arr"],
      [path |-> file_paths.file_path_test, content |-> "test_arr"],
      [path |-> config.preprocessed_object_file_path, content |-> "preprocessing_obj"]>>

\* C10: the files are written in the order train array, test array,
\* transformer object; a record is returned only after all three; a failed
\* write leaves the files written before it and returns no record.
C10_WriteOrder ==
    /\ IsPrefix(saved, ExpectedWrites)
    /\ artifact # NoArtifact => saved = ExpectedWrites
    /\ (pc = "raised" /\ steps[Len(steps)] = "save_train") => saved = <<>>
    /\ (pc = "raised" /\ steps[Len(steps)] = "save_test")
          => saved = SubSeq(ExpectedWrites, 1, 1) /\ artifact = NoArtifact
    /\ (pc = "raised" /\ steps[Len(steps)] = "save_object")
          => saved = SubSeq(ExpectedWrites, 1, 2) /\ artifact = NoArtifact

C10_Witness ==
    /\ pc = "raised"
    /\ steps[Len(steps)] = "save_object"
    /\ Len(saved) = 2
    /\ saved[1].content = "train_arr" /\ saved[2].content = "test_arr"
    /\ artifact = NoArtifact

---------------------------------------------------------------------------
(* Claims about FeatureGenerator *)

ConfiguredIndices(self) ==
    {self.total_rooms_ix, self.population_ix, self.households_ix, self.total_bedrooms_ix}

\* the cell of `row` in the column called `name` by the generator's column list
NamedCell(row, name) ==
    row[CHOOSE i \in 1..Len(fg.columns.names) : fg.columns.names[i] = name]

\* q is the float quotient n / d of two finite floats
IsQuotient(q, n, d) ==
    IF d.num # 0
    THEN q.den # 0 /\ q.num * d.num * n.den = n.num * d.den * q.den
    ELSE q.den = 0 /\ q.num = Sign(n.num)

\* C1: when the four configured indices are column positions of X, transform
\* returns a matrix with as many rows as X and X's column count + 3 (flag set)
\* or + 2 (flag clear) columns, each row starting with the row of X, unchanged.
C1_TransformShape ==
    (op = "transform" /\ \A i \in ConfiguredIndices(fg) : 0 <= i /\ i < X.ncols)
    => /\ raised = NoError
       /\ Len(result.rows) = Len(X.rows)
       /\ result.ncols = X.ncols + (IF fg.add_bedrooms_per_room THEN 3 ELSE 2)
       /\ \A r \in 1..Len(X.rows) :
            /\ Len(result.rows[r]) = result.ncols
            /\ SubSeq(result.rows[r], 1, X.ncols) = X.rows[r]

C1_Witness ==
    /\ op = "transform"
    /\ \A i \in ConfiguredIndices(fg) : 0 <= i /\ i < X.ncols
    /\ ~fg.add_bedrooms_per_room
    /\ result.ncols = X.ncols + 2
    /\ Len(result.rows) = MaxRows

\* C2: in every row with non-zero households the first appended column is
\* total_rooms / households and the second population / households, read in the
\* columns the constructor resolved by name; with the flag set the third is
\* total_bedrooms / total_rooms.
C2_Ratios ==
    (op = "transform" /\ raised = NoError /\ fg.columns.given)
    => \A r \in 1..Len(X.rows) :
         LET row == X.rows[r]
             out == result.rows[r]
             w == X.ncols
             total_rooms == NamedCell(row, COLUMN_TOTAL_ROOMS)
             households == NamedCell(row, COLUMN_HOUSEHOLDS)
             population == NamedCell(row, COLUMN_POPULATION)
             total_bedrooms == NamedCell(row, COLUMN_TOTAL_BEDROOM)
         IN  /\ households.num # 0 =>
                 /\ IsQuotient(out[w + 1], total_rooms, households)
                 /\ IsQuotient(out[w + 2], population, households)
             /\ fg.add_bedrooms_per_room =>
                 IsQuotient(out[w + 3], total_bedrooms, total_rooms)

C2_Witness ==
    /\ op = "transform" /\ raised = NoError /\ fg.columns.given
    /\ fg.add_bedrooms_per_room
    /\ \E r \in 1..Len(X.rows) :
         /\ NamedCell(X.rows[r], COLUMN_HOUSEHOLDS) = Flt(2)
         /\ NamedCell(X.rows[r], COLUMN_TOTAL_ROOMS) = Flt(1)
         /\ NamedCell(X.rows[r], COLUMN_POPULATION) = Flt(2)
         /\ result.rows[r][X.ncols + 1] = [num |-> 1, den |-> 2]
         /\ result.rows[r][X.ncols + 2] = Flt(1)
         /\ result.rows[r][X.ncols + 3] = Div(NamedCell(X.rows[r], COLUMN_TOTAL_BEDROOM), Flt(1))

\* C3: constructed with a column-name list, FeatureGenerator raises the domain
\* error and yields no instance when one of the four required names is absent;
\* otherwise each index is the position of its name in the list, whatever
\* index was passed explicitly.
C3_NameResolution ==
    (op = "init" /\ args.columns.given)
    => LET names == args.columns.names
       IN  IF \E n \in RequiredNames : \A i \in 1..Len(names) : names[i] # n
           THEN ~fg.ok /\ raised # NoError /\ raised[1] = "HousingException"
           ELSE /\ fg.ok /\ raised = NoError
                /\ names[fg.total_rooms_ix + 1] = COLUMN_TOTAL_ROOMS
                /\ names[fg.population_ix + 1] = COLUMN_POPULATION
                /\ names[fg.households_ix + 1] = COLUMN_HOUSEHOLDS
                /\ names[fg.total_bedrooms_ix + 1] = COLUMN_TOTAL_BEDROOM

C3_Witness ==
    /\ op = "init" /\ args.columns.given /\ fg.ok
    /\ args.total_rooms_ix # fg.total_rooms_ix
    /\ fg.total_rooms_ix = 4

\* C9 as claimed: a configured index that is negative or >= the column count
\* makes transform fail.
C9_AnyIndexOutside ==
    (op = "transform" /\ \E i \in ConfiguredIndices(fg) : i < 0 \/ i >= X.ncols)
    => raised # NoError /\ result = NoMatrix

\* C9 amended: transform fails with the wrapped IndexError and returns no
\* matrix exactly when an index it reads (total_rooms, households, population,
\* and total_bedrooms only when the flag is set) is < -ncols or >= ncols.
C9_ReadIndexOutside ==
    op = "transform"
    => LET n == X.ncols
           Outside(i) == i < -n \/ i >= n
           outside == \/ Outside(fg.total_rooms_ix)
                      \/ Outside(fg.households_ix)
                      \/ Outside(fg.population_ix)
                      \/ (fg.add_bedrooms_per_room /\ Outside(fg.total_bedrooms_ix))
       IN  IF outside
           THEN raised = <<"HousingException", "IndexError">> /\ result = NoMatrix
           ELSE raised = NoError /\ Len(result.rows) = Len(X.rows)

C9_Witness ==
    /\ op = "transform"
    /\ fg.households_ix = -2 /\ X.ncols = 1
    /\ raised = <<"HousingException", "IndexError">>
    /\ result = NoMatrix

=============================================================================
